---- MODULE Spec2Model ----
(***************************************************************************)
(* A model of the instance scheduler Lambda (src/index.ts).               *)
(*                                                                         *)
(* One behaviour is one invocation of `handler`: it reads the clock,       *)
(* awaits the holiday calendar and the two provider listings, maps every   *)
(* schedule of the event to a ResultItem (sending provider commands        *)
(* without awaiting them), logs the results and returns.                   *)
(*                                                                         *)
(* Time is in seconds on the process-local timeline (process.env.TZ); day  *)
(* 0 of the timeline is Saturday 2023-12-30.  A Date object is the number  *)
(* of seconds since 00:00:00 local of day 0.  An optional field (`x?: T`)  *)
(* is a sequence holding zero or one value.                                *)
(***************************************************************************)
EXTENDS Integers, Sequences, FiniteSets, TLC

VARIABLES
    pc,              \* position of handler: start, holidays, ec2, lightsail, map, done, failed
    clock,           \* the wall clock, local seconds
    ticks,           \* how often the clock has advanced during the invocation
    schedules,       \* event.schedules
    currentDate,     \* handler's currentDate
    currentDateStr,  \* handler's currentDateStr
    holidays,        \* the ApiHoliday object the holiday API returned
    todayIsHoliday,  \* handler's todayIsHoliday
    ec2Result,       \* DescribeInstancesCommandOutput held by handler
    lightsailResult, \* GetInstancesCommandOutput held by handler
    results,         \* the ResultItems produced by event.schedules.map so far
    eventDates,      \* eventDate of each callback call made so far
    commands,        \* provider commands sent with ec2.send / lightsail.send
    searches,        \* calls of searchEc2Instance / searchLightsailInstance
    fetches,         \* number of requests made for the calendar and the listings
    ec2Live,         \* what DescribeInstances would answer now
    lightsailLive,   \* what GetInstances would answer now
    logged,          \* what console.log(results) printed
    returned         \* the value handler resolved with

vars == <<pc, clock, ticks, schedules, currentDate, currentDateStr, holidays,
          todayIsHoliday, ec2Result, lightsailResult, results, eventDates,
          commands, searches, fetches, ec2Live, lightsailLive, logged, returned>>

----------------------------------------------------------------------------
(* Program constants *)

JST_TZ_OFFSET == 9

CANCEL_EVENT_ON_PUBLIC_HOLIDAY == 1

(* Bounds of the model *)

\* longest event.schedules
MaxSchedules == 2

\* how often the clock advances within one invocation
MaxTicks == 1

\* seconds by which one advance moves the clock
TickSeconds == 25

----------------------------------------------------------------------------
(* The Date object on the local timeline *)

DaySeconds == 24 * 60 * 60

DayIndex(d) == d \div DaySeconds

\* Date.prototype.getHours / getMinutes
GetHours(d) == (d % DaySeconds) \div 3600

GetMinutes(d) == (d % 3600) \div 60

\* Date.prototype.setHours(h, m, 0, 0): the fields are set on the date's own
\* calendar day and an hour of 24 or more rolls over into the next day
SetHours(d, h, m) == DayIndex(d) * DaySeconds + h * 3600 + m * 60

\* Date.prototype.getDay: 0 = Sunday .. 6 = Saturday; day 0 is a Saturday
GetDay(d) == (6 + DayIndex(d)) % 7

\* Date.prototype.getFullYear / getMonth / getDate for 2023-12-30 .. 2024-01-30
GetFullYear(d) == IF DayIndex(d) <= 1 THEN 2023 ELSE 2024

GetMonth(d) == IF DayIndex(d) <= 1 THEN 11 ELSE 0

GetDate(d) == IF DayIndex(d) <= 1 THEN 30 + DayIndex(d) ELSE DayIndex(d) - 1

\* Date.prototype.getTime, in seconds
GetTime(d) == d

\* String.prototype.padStart(2, "0")
PadStart2(s) == IF Len(s) < 2 THEN "0" \o s ELSE s

\* handler's currentDateStr
DateStr(d) ==
    ToString(GetFullYear(d)) \o "-" \o PadStart2(ToString(GetMonth(d) + 1))
        \o "-" \o PadStart2(ToString(GetDate(d)))

\* japaneseWeekday.format(date)
WeekdayNames ==
    <<"Sunday", "Monday", "Tuesday", "Wednesday", "Thursday", "Friday", "Saturday">>

japaneseWeekday(d) == WeekdayNames[GetDay(d) + 1]

\* Array.prototype.includes
Includes(arr, v) == \E k \in DOMAIN arr : arr[k] = v

\* Array.prototype.find: the first element satisfying P, or undefined
\* (hits: the indices of the elements that satisfy the predicate)
Find(arr, hits) ==
    IF hits = {} THEN <<>>
    ELSE <<arr[CHOOSE k \in hits : \A j \in hits : k <= j]>>

----------------------------------------------------------------------------
(* Provider listings                                                       *)
(*   DescribeInstancesCommandOutput: [Reservations?: Reservation[]]        *)
(*   Reservation: [Instances?: Instance[]]                                 *)
(*   EC2 Instance: [InstanceId, State?] with State the value of State.Name *)
(*   GetInstancesCommandOutput: [instances?: Instance[]]                   *)
(*   Lightsail Instance: [name, resourceType, state?] with state the value *)
(*   of state.name                                                         *)
(***************************************************************************)

\* reservations.flatMap((reservation) => reservation.Instances || [])
RECURSIVE FlatMapInstances(_)
FlatMapInstances(reservations) ==
    IF reservations = <<>> THEN <<>>
    ELSE (IF Head(reservations).Instances = <<>> THEN <<>>
          ELSE Head(reservations).Instances[1])
         \o FlatMapInstances(Tail(reservations))

searchEc2Instance(resourceId, ec2Res) ==
    IF ec2Res.Reservations = <<>> THEN <<>>
    ELSE LET instances == FlatMapInstances(ec2Res.Reservations[1])
         IN  Find(instances,
                  {k \in DOMAIN instances : instances[k].InstanceId = resourceId})

\* searchLightsailInstance matching on the name alone
searchLightsailInstanceByName(resourceId, lightsailRes) ==
    IF lightsailRes.instances = <<>> THEN <<>>
    ELSE LET instances == lightsailRes.instances[1]
         IN  Find(instances, {k \in DOMAIN instances : instances[k].name = resourceId})

searchLightsailInstance(resourceId, lightsailRes) ==
    IF lightsailRes.instances = <<>> THEN <<>>
    ELSE LET instances == lightsailRes.instances[1]
         IN  Find(instances,
                  {k \in DOMAIN instances : /\ instances[k].resourceType = "Instance"
                                            /\ instances[k].name = resourceId})

----------------------------------------------------------------------------
(* Result items and the four start/stop functions.  Each function yields   *)
(* the ResultItem it returns (item), the commands it hands to the client's *)
(* send (sent) and the searches it makes (searched).  A detail text is the *)
(* sequence of its message and the values interpolated into it.            *)
(***************************************************************************)

\* createResultItem filling resourceId from the wrong field
createResultItemWrongField(schedule, details) ==
    [resouceType |-> schedule.resourceType,
     resourceId  |-> schedule.resourceType,
     eventType   |-> schedule.eventType,
     details     |-> details]

createResultItem(schedule, details) ==
    [resouceType |-> schedule.resourceType,
     resourceId  |-> schedule.resourceId,
     eventType   |-> schedule.eventType,
     details     |-> details]

Outcome(item, sent, searched) == [item |-> item, sent |-> sent, searched |-> searched]

Command(client, name, target) == [client |-> client, command |-> name, target |-> target]

Search(fn, resourceId) == [fn |-> fn, resourceId |-> resourceId]

startEc2Instance(schedule, ec2Res) ==
    LET targetInstance == searchEc2Instance(schedule.resourceId, ec2Res)
        searched == <<Search("searchEc2Instance", schedule.resourceId)>>
    IN  IF targetInstance # <<>>
        THEN IF targetInstance[1].State = <<"running">>
             THEN Outcome(createResultItem(schedule, <<"CANCELLED_INSTANCE_ALREADY_RUNNING">>),
                          <<>>, searched)
             ELSE Outcome(createResultItem(schedule, <<"INSTANCE_START_INSTRUCTED">>),
                          <<Command("ec2", "StartInstancesCommand", schedule.resourceId)>>,
                          searched)
        ELSE Outcome(createResultItem(schedule, <<"INSTANCE_NOT_FOUND">>), <<>>, searched)

stopEc2Instance(schedule, ec2Res) ==
    LET targetInstance == searchEc2Instance(schedule.resourceId, ec2Res)
        searched == <<Search("searchEc2Instance", schedule.resourceId)>>
    IN  IF targetInstance # <<>>
        THEN IF targetInstance[1].State = <<"stopped">>
             THEN Outcome(createResultItem(schedule, <<"CANCELLED_INSTANCE_ALREADY_STOPPED">>),
                          <<>>, searched)
             ELSE Outcome(createResultItem(schedule, <<"INSTANCE_STOP_INSTRUCTED">>),
                          <<Command("ec2", "StopInstancesCommand", schedule.resourceId)>>,
                          searched)
        ELSE Outcome(createResultItem(schedule, <<"INSTANCE_NOT_FOUND">>), <<>>, searched)

startLightsailInstance(schedule, lightsailRes) ==
    LET targetInstance == searchLightsailInstance(schedule.resourceId, lightsailRes)
        searched == <<Search("searchLightsailInstance", schedule.resourceId)>>
    IN  IF targetInstance # <<>>
        THEN IF targetInstance[1].state = <<"running">>
             THEN Outcome(createResultItem(schedule, <<"CANCELLED_INSTANCE_ALREADY_RUNNING">>),
                          <<>>, searched)
             ELSE Outcome(createResultItem(schedule, <<"INSTANCE_START_INSTRUCTED">>),
                          <<Command("lightsail", "StartInstanceCommand", schedule.resourceId)>>,
                          searched)
        ELSE Outcome(createResultItem(schedule, <<"INSTANCE_NOT_FOUND">>), <<>>, searched)

\* stopLightsailInstance acting on a running instance only
stopLightsailInstanceRunningOnly(schedule, lightsailRes) ==
    LET targetInstance == searchLightsailInstance(schedule.resourceId, lightsailRes)
        searched == <<Search("searchLightsailInstance", schedule.resourceId)>>
    IN  IF targetInstance # <<>>
        THEN IF targetInstance[1].state # <<"running">>
             THEN Outcome(createResultItem(schedule, <<"CANCELLED_INSTANCE_ALREADY_STOPPED">>),
                          <<>>, searched)
             ELSE Outcome(createResultItem(schedule, <<"INSTANCE_STOP_INSTRUCTED">>),
                          <<Command("lightsail", "StopInstanceCommand", schedule.resourceId)>>,
                          searched)
        ELSE Outcome(createResultItem(schedule, <<"INSTANCE_NOT_FOUND">>), <<>>, searched)

stopLightsailInstance(schedule, lightsailRes) ==
    LET targetInstance == searchLightsailInstance(schedule.resourceId, lightsailRes)
        searched == <<Search("searchLightsailInstance", schedule.resourceId)>>
    IN  IF targetInstance # <<>>
        THEN IF targetInstance[1].state = <<"stopped">>
             THEN Outcome(createResultItem(schedule, <<"CANCELLED_INSTANCE_ALREADY_STOPPED">>),
                          <<>>, searched)
             ELSE Outcome(createResultItem(schedule, <<"INSTANCE_STOP_INSTRUCTED">>),
                          <<Command("lightsail", "StopInstanceCommand", schedule.resourceId)>>,
                          searched)
        ELSE Outcome(createResultItem(schedule, <<"INSTANCE_NOT_FOUND">>), <<>>, searched)

----------------------------------------------------------------------------
(* The callback of event.schedules.map                                     *)

\* the time window with the far edge left out
OutOfRangeClosedOpen(diffSecond) == diffSecond < 0 \/ 300 <= diffSecond

\* the test of the time window on diffSecond
OutOfRange(diffSecond) == diffSecond < 0 \/ 300 < diffSecond

\* eventDate: a fresh reading `now` of the clock, set to the schedule's time
EventDate(schedule, now) ==
    SetHours(now, schedule.eventHour + JST_TZ_OFFSET, schedule.eventMinute)

DiffSecond(current, eventDate) == GetTime(current) - GetTime(eventDate)

\* the switch deciding on the providers' state of the moment
DispatchLive(schedule) ==
    LET resourceEventType == schedule.resourceType \o schedule.eventType
    IN  CASE resourceEventType = "ec2start" -> startEc2Instance(schedule, ec2Live)
          [] resourceEventType = "ec2stop" -> stopEc2Instance(schedule, ec2Live)
          [] resourceEventType = "lightsailstart" ->
                startLightsailInstance(schedule, lightsailLive)
          [] resourceEventType = "lightsailstop" ->
                stopLightsailInstance(schedule, lightsailLive)
          [] OTHER ->
                Outcome(createResultItem(schedule, <<"SETTING_MAYBE_INCORRECT">>), <<>>, <<>>)

\* the switch on resourceType + eventType and the fall-through below it
Dispatch(schedule) ==
    LET resourceEventType == schedule.resourceType \o schedule.eventType
    IN  CASE resourceEventType = "ec2start" -> startEc2Instance(schedule, ec2Result)
          [] resourceEventType = "ec2stop" -> stopEc2Instance(schedule, ec2Result)
          [] resourceEventType = "lightsailstart" ->
                startLightsailInstance(schedule, lightsailResult)
          [] resourceEventType = "lightsailstop" ->
                stopLightsailInstance(schedule, lightsailResult)
          [] OTHER ->
                Outcome(createResultItem(schedule, <<"SETTING_MAYBE_INCORRECT">>), <<>>, <<>>)

\* the holiday test without the schedule's own setting
HolidayCancelsAnyPolicy(schedule) == todayIsHoliday

\* the holiday test of the callback
HolidayCancels(schedule) ==
    todayIsHoliday /\ schedule.holiday = <<CANCEL_EVENT_ON_PUBLIC_HOLIDAY>>

\* the callback with the weekday check made before the time check
CallbackWeekdayFirst(schedule, now) ==
    LET eventDate == EventDate(schedule, now)
        diffSecond == DiffSecond(currentDate, eventDate)
    IN  IF ~Includes(schedule.weekdays, GetDay(currentDate))
        THEN Outcome(createResultItem(schedule,
                         <<"CANCELLED_TODAY_NOT_WORKING_DAY", japaneseWeekday(currentDate)>>),
                     <<>>, <<>>)
        ELSE IF OutOfRange(diffSecond)
        THEN Outcome(createResultItem(schedule, <<"CANCELLED_TIME_OUT_OF_RANGE">>), <<>>, <<>>)
        ELSE IF HolidayCancels(schedule)
        THEN Outcome(createResultItem(schedule,
                         <<"CANCELLED_TODAY_IS_HOLIDAY", holidays[currentDateStr]>>),
                     <<>>, <<>>)
        ELSE Dispatch(schedule)

\* the whole callback for one schedule, the clock reading `now`
Callback(schedule, now) ==
    LET eventDate == EventDate(schedule, now)
        diffSecond == DiffSecond(currentDate, eventDate)
    IN  IF OutOfRange(diffSecond)
        THEN Outcome(createResultItem(schedule, <<"CANCELLED_TIME_OUT_OF_RANGE">>), <<>>, <<>>)
        ELSE IF ~Includes(schedule.weekdays, GetDay(currentDate))
        THEN Outcome(createResultItem(schedule,
                         <<"CANCELLED_TODAY_NOT_WORKING_DAY", japaneseWeekday(currentDate)>>),
                     <<>>, <<>>)
        ELSE IF HolidayCancels(schedule)
        THEN Outcome(createResultItem(schedule,
                         <<"CANCELLED_TODAY_IS_HOLIDAY", holidays[currentDateStr]>>),
                     <<>>, <<>>)
        ELSE Dispatch(schedule)

----------------------------------------------------------------------------
(* The collaborators                                                       *)

\* what https://holidays-jp.github.io/api/v1/<year>/date.json answers
ApiHoliday(year) ==
    IF year = 2023
    THEN [k \in {"2023-01-01", "2023-11-23"} |->
             IF k = "2023-01-01" THEN "Ganjitsu" ELSE "Kinro Kansha no Hi"]
    ELSE [k \in {"2024-01-01", "2024-01-08"} |->
             IF k = "2024-01-01" THEN "Ganjitsu" ELSE "Seijin no Hi"]

\* the state.name a provider reports once it has accepted a command
Transitional(command) ==
    IF command \in {"StartInstancesCommand", "StartInstanceCommand"}
    THEN "pending" ELSE "stopping"

\* the EC2 listing after EC2 accepted `command` for InstanceIds [target]
Ec2After(listing, command, target) ==
    IF listing.Reservations = <<>> THEN listing
    ELSE [Reservations |-> <<
            [r \in DOMAIN listing.Reservations[1] |->
                LET res == listing.Reservations[1][r]
                IN  IF res.Instances = <<>> THEN res
                    ELSE [Instances |-> <<
                            [k \in DOMAIN res.Instances[1] |->
                                LET inst == res.Instances[1][k]
                                IN  IF inst.InstanceId = target
                                    THEN [inst EXCEPT !.State = <<Transitional(command)>>]
                                    ELSE inst] >>] ] >>]

\* the Lightsail listing after Lightsail accepted `command` for instanceName target
LightsailAfter(listing, command, target) ==
    IF listing.instances = <<>> THEN listing
    ELSE [instances |-> <<
            [k \in DOMAIN listing.instances[1] |->
                LET inst == listing.instances[1][k]
                IN  IF inst.name = target /\ inst.resourceType = "Instance"
                    THEN [inst EXCEPT !.state = <<Transitional(command)>>]
                    ELSE inst] >>]

----------------------------------------------------------------------------
(* Inputs: the event, the clock at the invocation and the providers' state *)

At(day, h, m, sec) == day * DaySeconds + h * 3600 + m * 60 + sec

Schedule(type, id, event, hour, minute, weekdays, holiday) ==
    [resourceType |-> type, resourceId |-> id, eventType |-> event,
     eventHour |-> hour, eventMinute |-> minute, weekdays |-> weekdays,
     holiday |-> holiday]

Ec2Instance(id, state) == [InstanceId |-> id, State |-> state]

LightsailInstance(name, type, state) == [name |-> name, resourceType |-> type, state |-> state]

EveryDay == <<0, 1, 2, 3, 4, 5, 6>>

WorkingDays == <<1, 2, 3, 4, 5>>

Weekend == <<0, 6>>

Live(ec2, lightsail) == [ec2 |-> ec2, lightsail |-> lightsail]

LiveA ==
    Live([Reservations |-> << << [Instances |-> << <<Ec2Instance("a", <<"running">>)>> >>],
                                 [Instances |-> <<>>],
                                 [Instances |-> << <<Ec2Instance("b", <<"stopped">>)>> >>] >> >>],
         [instances |-> << << LightsailInstance("a", "StaticIp", <<"running">>),
                              LightsailInstance("a", "Instance", <<>>),
                              LightsailInstance("b", "Disk", <<"stopped">>) >> >>])

LiveB ==
    Live([Reservations |-> << << [Instances |-> << << Ec2Instance("a", <<"pending">>),
                                                      Ec2Instance("b", <<>>) >> >>] >> >>],
         [instances |-> << << LightsailInstance("a", "Instance", <<"stopped">>),
                              LightsailInstance("b", "Instance", <<"running">>) >> >>])

LiveC ==
    Live([Reservations |-> << << [Instances |-> << <<Ec2Instance("b", <<"running">>)>> >>] >> >>],
         [instances |-> << <<LightsailInstance("a", "Instance", <<"stopping">>)>> >>])

LiveD == Live([Reservations |-> <<>>], [instances |-> <<>>])

\* schedules around the edges of the window, every other check passing
WindowProfile ==
    [rules  |-> {Schedule("ec2", "b", "start", 0, m, EveryDay, <<>>) : m \in {0, 5, 10}},
     clocks |-> {At(3, 0, 4, 59), At(3, 0, 5, 0), At(3, 0, 9, 59),
                 At(3, 0, 10, 0), At(3, 0, 11, 10)},
     live   |-> {LiveA}]

\* every supported resource kind, action and resource state, inside the window
TableProfile ==
    [rules  |-> {Schedule(t, id, e, 0, 0, WorkingDays, <<>>) :
                    t \in {"ec2", "lightsail"}, id \in {"a", "b"}, e \in {"start", "stop"}},
     clocks |-> {At(3, 0, 2, 30)},
     live   |-> {LiveA, LiveB, LiveC, LiveD}]

\* supported and unsupported pairs of resourceType and eventType
DispatchProfile ==
    [rules  |-> {Schedule(p[1], "a", p[2], 0, 0, WorkingDays, <<>>) :
                    p \in {<<"ec2", "start">>, <<"lightsail", "stop">>, <<"ec", "2start">>,
                           <<"lights", "ailstop">>, <<"rds", "start">>, <<"ec2", "reboot">>}},
     clocks |-> {At(3, 0, 2, 30)},
     live   |-> {LiveB}]

\* the gates: in and out of the window, on a Sunday, a holiday Monday and a Tuesday
GateProfile ==
    [rules  |-> {Schedule("ec2", "a", "stop", 0, m, w, h) :
                    m \in {0, 30}, w \in {WorkingDays, Weekend}, h \in {<<0>>, <<1>>}}
                \cup {Schedule("ec2", "a", "stop", 0, 0, WorkingDays, <<>>),
                      Schedule("ec2", "zz", "stop", 0, 0, WorkingDays, <<1>>),
                      Schedule("ec2", "zz", "stop", 0, 30, Weekend, <<1>>)},
     clocks |-> {At(1, 0, 2, 30), At(2, 0, 2, 30), At(3, 0, 2, 30)},
     live   |-> {LiveA}]

\* late local hours: adding the offset, or the clock itself, crosses midnight
MidnightProfile ==
    [rules  |-> {Schedule("ec2", "a", "start", 23, 55, w, <<1>>) : w \in {<<2>>, <<3>>}}
                \cup {Schedule("lightsail", "a", "start", 15, 0, <<3>>, <<0>>)},
     clocks |-> {At(3, 23, 59, 40), At(3, 15, 2, 30)},
     live   |-> {LiveB}]

Profiles == {WindowProfile, TableProfile, DispatchProfile, GateProfile, MidnightProfile}

----------------------------------------------------------------------------
(* The invocation *)

Init ==
    \E p \in Profiles :
        \E n \in 0..MaxSchedules :
            /\ schedules \in [1..n -> p.rules]
            /\ clock \in p.clocks
            /\ \E l \in p.live : ec2Live = l.ec2 /\ lightsailLive = l.lightsail
            /\ pc = "start"
            /\ ticks = 0
            /\ currentDate = 0
            /\ currentDateStr = ""
            /\ holidays = <<>>
            /\ todayIsHoliday = FALSE
            /\ ec2Result = [Reservations |-> <<>>]
            /\ lightsailResult = [instances |-> <<>>]
            /\ results = <<>>
            /\ eventDates = <<>>
            /\ commands = <<>>
            /\ searches = <<>>
            /\ fetches = [holidays |-> 0, ec2 |-> 0, lightsail |-> 0]
            /\ logged = <<>>
            /\ returned = <<>>

\* const currentDate = new Date(); setHours(...); const currentDateStr = ...
ReadClock ==
    /\ pc = "start"
    /\ currentDate' = SetHours(clock, GetHours(clock) + JST_TZ_OFFSET, GetMinutes(clock))
    /\ currentDateStr' = DateStr(currentDate')
    /\ pc' = "holidays"
    /\ UNCHANGED <<clock, ticks, schedules, holidays, todayIsHoliday, ec2Result,
                   lightsailResult, results, eventDates, commands, searches, fetches,
                   ec2Live, lightsailLive, logged, returned>>

\* const holidays = await fetchHolidays(); const todayIsHoliday = ...
FetchHolidays ==
    /\ pc = "holidays"
    /\ fetches' = [fetches EXCEPT !.holidays = @ + 1]
    /\ holidays' = ApiHoliday(GetFullYear(currentDate))
    /\ todayIsHoliday' = (currentDateStr \in DOMAIN holidays')
    /\ pc' = "ec2"
    /\ UNCHANGED <<clock, ticks, schedules, currentDate, currentDateStr, ec2Result,
                   lightsailResult, results, eventDates, commands, searches,
                   ec2Live, lightsailLive, logged, returned>>

\* const ec2Result = await ec2.send(new DescribeInstancesCommand({}))
DescribeInstances ==
    /\ pc = "ec2"
    /\ fetches' = [fetches EXCEPT !.ec2 = @ + 1]
    /\ ec2Result' = ec2Live
    /\ pc' = "lightsail"
    /\ UNCHANGED <<clock, ticks, schedules, currentDate, currentDateStr, holidays,
                   todayIsHoliday, lightsailResult, results, eventDates, commands,
                   searches, ec2Live, lightsailLive, logged, returned>>

\* const lightsailResult = await lightsail.send(new GetInstancesCommand({}))
GetInstances ==
    /\ pc = "lightsail"
    /\ fetches' = [fetches EXCEPT !.lightsail = @ + 1]
    /\ lightsailResult' = lightsailLive
    /\ pc' = "map"
    /\ UNCHANGED <<clock, ticks, schedules, currentDate, currentDateStr, holidays,
                   todayIsHoliday, ec2Result, results, eventDates, commands,
                   searches, ec2Live, lightsailLive, logged, returned>>

\* one of the three awaited requests rejects: handler rejects with it
FetchFails ==
    /\ pc \in {"holidays", "ec2", "lightsail"}
    /\ fetches' = [fetches EXCEPT ![pc] = @ + 1]
    /\ pc' = "failed"
    /\ UNCHANGED <<clock, ticks, schedules, currentDate, currentDateStr, holidays,
                   todayIsHoliday, ec2Result, lightsailResult, results, eventDates,
                   commands, searches, ec2Live, lightsailLive, logged, returned>>

\* the records of the commands and searches of the call for schedule i
Tagged(items, i) == [k \in DOMAIN items |-> [rule |-> i, call |-> items[k]]]

\* one call of the map callback, for the next schedule of the event
MapSchedule ==
    /\ pc = "map"
    /\ Len(results) < Len(schedules)
    /\ LET i == Len(results) + 1
           out == Callback(schedules[i], clock)
       IN  /\ results' = Append(results, out.item)
           /\ eventDates' = Append(eventDates, EventDate(schedules[i], clock))
           /\ commands' = commands \o
                  [k \in DOMAIN out.sent |->
                      [rule |-> i, call |-> out.sent[k], status |-> "sent"]]
           /\ searches' = searches \o Tagged(out.searched, i)
    /\ UNCHANGED <<pc, clock, ticks, schedules, currentDate, currentDateStr, holidays,
                   todayIsHoliday, ec2Result, lightsailResult, fetches,
                   ec2Live, lightsailLive, logged, returned>>

\* handler returning only once every command it sent has settled
ReturnWhenSettled ==
    /\ pc = "map"
    /\ Len(results) = Len(schedules)
    /\ \A k \in DOMAIN commands : commands[k].status # "sent"
    /\ logged' = <<results>>
    /\ returned' = <<[status |-> "success"]>>
    /\ pc' = "done"
    /\ UNCHANGED <<clock, ticks, schedules, currentDate, currentDateStr, holidays,
                   todayIsHoliday, ec2Result, lightsailResult, results, eventDates,
                   commands, searches, fetches, ec2Live, lightsailLive>>

\* console.log(results); return { status: "success" }
Return ==
    /\ pc = "map"
    /\ Len(results) = Len(schedules)
    /\ logged' = <<results>>
    /\ returned' = <<[status |-> "success"]>>
    /\ pc' = "done"
    /\ UNCHANGED <<clock, ticks, schedules, currentDate, currentDateStr, holidays,
                   todayIsHoliday, ec2Result, lightsailResult, results, eventDates,
                   commands, searches, fetches, ec2Live, lightsailLive>>

\* time passes while handler runs
Tick ==
    /\ pc \in {"holidays", "ec2", "lightsail", "map"}
    /\ ticks < MaxTicks
    /\ ticks' = ticks + 1
    /\ clock' = clock + TickSeconds
    /\ UNCHANGED <<pc, schedules, currentDate, currentDateStr, holidays, todayIsHoliday,
                   ec2Result, lightsailResult, results, eventDates, commands, searches,
                   fetches, ec2Live, lightsailLive, logged, returned>>

\* the provider accepts a command that was sent: the promise of send fulfils,
\* which nothing awaits, and the instance enters its transitional state
CommandFulfilled ==
    \E k \in DOMAIN commands :
        /\ commands[k].status = "sent"
        /\ commands' = [commands EXCEPT ![k].status = "fulfilled"]
        /\ LET c == commands[k].call
           IN  IF c.client = "ec2"
               THEN /\ ec2Live' = Ec2After(ec2Live, c.command, c.target)
                    /\ UNCHANGED lightsailLive
               ELSE /\ lightsailLive' = LightsailAfter(lightsailLive, c.command, c.target)
                    /\ UNCHANGED ec2Live
        /\ UNCHANGED <<pc, clock, ticks, schedules, currentDate, currentDateStr, holidays,
                       todayIsHoliday, ec2Result, lightsailResult, results, eventDates,
                       searches, fetches, logged, returned>>

\* the provider rejects a command that was sent: the promise of send rejects,
\* which nothing awaits or catches
CommandRejected ==
    \E k \in DOMAIN commands :
        /\ commands[k].status = "sent"
        /\ commands' = [commands EXCEPT ![k].status = "rejected"]
        /\ UNCHANGED <<pc, clock, ticks, schedules, currentDate, currentDateStr, holidays,
                       todayIsHoliday, ec2Result, lightsailResult, results, eventDates,
                       searches, fetches, ec2Live, lightsailLive, logged, returned>>

Next ==
    \/ ReadClock
    \/ FetchHolidays
    \/ DescribeInstances
    \/ GetInstances
    \/ FetchFails
    \/ MapSchedule
    \/ Return
    \/ Tick
    \/ CommandFulfilled
    \/ CommandRejected

Spec == Init /\ [][Next]_vars

----------------------------------------------------------------------------
(* Vocabulary of the properties *)

Evaluated == DOMAIN results

\* the message of the decision recorded for schedule i
Msg(i) == results[i].details[1]

\* diffSecond as the callback computed it for schedule i
DiffOf(i) == DiffSecond(currentDate, eventDates[i])

GateSkips ==
    {"CANCELLED_TIME_OUT_OF_RANGE", "CANCELLED_TODAY_NOT_WORKING_DAY",
     "CANCELLED_TODAY_IS_HOLIDAY"}

AlreadyInTargetState ==
    {"CANCELLED_INSTANCE_ALREADY_RUNNING", "CANCELLED_INSTANCE_ALREADY_STOPPED"}

Fires == {"INSTANCE_START_INSTRUCTED", "INSTANCE_STOP_INSTRUCTED"}

PassedGates(i) == Msg(i) \notin GateSkips

SupportedPairs ==
    {<<"ec2", "start">>, <<"ec2", "stop">>, <<"lightsail", "start">>, <<"lightsail", "stop">>}

Supported(i) == <<schedules[i].resourceType, schedules[i].eventType>> \in SupportedPairs

CommandsOf(i) == {k \in DOMAIN commands : commands[k].rule = i}

SearchesOf(i) == {k \in DOMAIN searches : searches[k].rule = i}

\* every instance of every reservation of the EC2 snapshot
Ec2Entries ==
    IF ec2Result.Reservations = <<>> THEN {}
    ELSE UNION {IF res.Instances = <<>> THEN {}
                ELSE {res.Instances[1][k] : k \in DOMAIN res.Instances[1]} :
                   res \in {ec2Result.Reservations[1][r] :
                              r \in DOMAIN ec2Result.Reservations[1]}}

\* every entry of the Lightsail snapshot
LightsailEntries ==
    IF lightsailResult.instances = <<>> THEN {}
    ELSE {lightsailResult.instances[1][k] : k \in DOMAIN lightsailResult.instances[1]}

\* the (optional) State.Name / state.name values of the snapshot's entries that
\* are the target of schedule i: by InstanceId in any reservation for EC2, by
\* name and resourceType "Instance" for Lightsail
SnapshotStates(i) ==
    IF schedules[i].resourceType = "ec2"
    THEN {e.State : e \in {x \in Ec2Entries : x.InstanceId = schedules[i].resourceId}}
    ELSE {e.state : e \in {x \in LightsailEntries :
                             /\ x.name = schedules[i].resourceId
                             /\ x.resourceType = "Instance"}}

Found(i) == SnapshotStates(i) # {}

----------------------------------------------------------------------------
(* C1: a rule passes the time-window gate iff 0 <= diffSecond < 300, with  *)
(* now truncated to the whole minute: a difference of exactly 300 seconds  *)
(* does not pass.  (As the specification states it.)                         *)
C1_WindowClosedOpen ==
    \A i \in Evaluated :
        (Msg(i) # "CANCELLED_TIME_OUT_OF_RANGE") <=> (0 <= DiffOf(i) /\ DiffOf(i) < 300)

(* C1, amended: a rule passes the time-window gate iff 0 <= diffSecond <=  *)
(* 300, with now truncated to the whole minute: differences of 0 and of    *)
(* exactly 300 seconds pass, a negative one and one above 300 do not.      *)
C1_WindowClosed ==
    /\ pc # "start" => currentDate % 60 = 0
    /\ \A i \in Evaluated :
        (Msg(i) # "CANCELLED_TIME_OUT_OF_RANGE") <=> (0 <= DiffOf(i) /\ DiffOf(i) <= 300)

C1_Witness ==
    \E i, j \in Evaluated :
        /\ DiffOf(i) = 300 /\ Msg(i) = "INSTANCE_START_INSTRUCTED"
        /\ DiffOf(j) = 0 /\ Msg(j) = "INSTANCE_START_INSTRUCTED"

(* C2: a rule that passes the three gates, has a supported (kind, action)  *)
(* pair and whose resource is in the snapshot follows the status/action    *)
(* table, for EC2 and Lightsail alike: Start on running and Stop on        *)
(* stopped are skipped as already in the target state and send nothing;    *)
(* any other status, a missing one included, fires: one command is sent.   *)
C2_StatusActionTable ==
    \A i \in Evaluated :
        (PassedGates(i) /\ Supported(i) /\ Found(i)) =>
            \A st \in SnapshotStates(i) :
                IF schedules[i].eventType = "start"
                THEN IF st = <<"running">>
                     THEN /\ Msg(i) = "CANCELLED_INSTANCE_ALREADY_RUNNING"
                          /\ CommandsOf(i) = {}
                     ELSE /\ Msg(i) = "INSTANCE_START_INSTRUCTED"
                          /\ Cardinality(CommandsOf(i)) = 1
                ELSE IF st = <<"stopped">>
                     THEN /\ Msg(i) = "CANCELLED_INSTANCE_ALREADY_STOPPED"
                          /\ CommandsOf(i) = {}
                     ELSE /\ Msg(i) = "INSTANCE_STOP_INSTRUCTED"
                          /\ Cardinality(CommandsOf(i)) = 1

C2_Witness ==
    \E i, j \in Evaluated :
        /\ schedules[i].resourceType = "ec2" /\ schedules[i].eventType = "start"
        /\ SnapshotStates(i) = {<<"running">>}
        /\ Msg(i) = "CANCELLED_INSTANCE_ALREADY_RUNNING"
        /\ schedules[j].resourceType = "lightsail" /\ schedules[j].eventType = "stop"
        /\ SnapshotStates(j) = {<<>>}
        /\ Msg(j) = "INSTANCE_STOP_INSTRUCTED"

(* C3: a rule that passes the three gates and whose (resourceType,         *)
(* eventType) pair is not one of the four supported pairs is skipped as    *)
(* an unrecognized configuration and sends no command, for every such pair *)
(* of strings.                                                             *)
C3_UnsupportedPairSkipped ==
    \A i \in Evaluated :
        (PassedGates(i) /\ ~Supported(i)) =>
            /\ Msg(i) = "SETTING_MAYBE_INCORRECT"
            /\ CommandsOf(i) = {}

\* the window, the weekday and the holiday condition of schedule i
OutsideWindow(i) == DiffOf(i) < 0 \/ DiffOf(i) > 300

NonOperatingDay(i) == GetDay(currentDate) \notin {schedules[i].weekdays[k] :
                                                    k \in DOMAIN schedules[i].weekdays}

CancellingHoliday(i) ==
    schedules[i].holiday = <<1>> /\ currentDateStr \in DOMAIN holidays

(* C4: the checks are applied in the order time window, weekday, holiday,  *)
(* lookup, decision and the first that disqualifies the rule decides: a    *)
(* rule outside its window (as the gate draws it: a difference below 0 or  *)
(* above 300 s) reports the time reason whatever the weekday, the holiday  *)
(* and the resource are; a rule inside it on a non-operating weekday       *)
(* reports the weekday; then a cancelling holiday reports the holiday; a   *)
(* rule skipped by a gate makes no lookup and sends no command, and a rule *)
(* that passes the gates with a supported pair makes exactly one lookup.   *)
C4_GateOrder ==
    \A i \in Evaluated :
        /\ OutsideWindow(i) => Msg(i) = "CANCELLED_TIME_OUT_OF_RANGE"
        /\ (~OutsideWindow(i) /\ NonOperatingDay(i)) =>
               results[i].details =
                   <<"CANCELLED_TODAY_NOT_WORKING_DAY", WeekdayNames[GetDay(currentDate) + 1]>>
        /\ (~OutsideWindow(i) /\ ~NonOperatingDay(i) /\ CancellingHoliday(i)) =>
               Msg(i) = "CANCELLED_TODAY_IS_HOLIDAY"
        /\ Msg(i) \in GateSkips => (SearchesOf(i) = {} /\ CommandsOf(i) = {})
        /\ (Msg(i) \notin GateSkips /\ Supported(i)) => Cardinality(SearchesOf(i)) = 1

C4_Witness ==
    \E i, j \in Evaluated :
        /\ OutsideWindow(i) /\ NonOperatingDay(i) /\ CancellingHoliday(i) /\ ~Found(i)
        /\ Msg(i) = "CANCELLED_TIME_OUT_OF_RANGE"
        /\ ~OutsideWindow(j) /\ NonOperatingDay(j) /\ CancellingHoliday(j) /\ Found(j)
        /\ Msg(j) = "CANCELLED_TODAY_NOT_WORKING_DAY"

\* the action a provider command stands for
CommandAction(command) ==
    IF command \in {"StartInstancesCommand", "StartInstanceCommand"} THEN "start" ELSE "stop"

(* C5: each rule causes at most one provider command, and one is sent iff  *)
(* the rule's decision is Fire; the command is of the rule's own resource  *)
(* kind and action and addressed to the rule's resourceId; no Start goes   *)
(* to a resource the snapshot shows running, no Stop to one it shows       *)
(* stopped.                                                                *)
C5_OneCommandPerFire ==
    \A i \in Evaluated :
        /\ Cardinality(CommandsOf(i)) <= 1
        /\ (Msg(i) \in Fires) <=> (CommandsOf(i) # {})
        /\ \A k \in CommandsOf(i) :
            /\ commands[k].call.client = schedules[i].resourceType
            /\ CommandAction(commands[k].call.command) = schedules[i].eventType
            /\ commands[k].call.target = schedules[i].resourceId
            /\ (IF CommandAction(commands[k].call.command) = "start"
                THEN <<"running">> ELSE <<"stopped">>) \notin SnapshotStates(i)

\* C5 for the rules whose pair is one of the four supported ones
C5_SupportedOnly ==
    \A i \in Evaluated :
        Supported(i) =>
            /\ Cardinality(CommandsOf(i)) <= 1
            /\ (Msg(i) \in Fires) <=> (CommandsOf(i) # {})
            /\ \A k \in CommandsOf(i) :
                /\ commands[k].call.client = schedules[i].resourceType
                /\ CommandAction(commands[k].call.command) = schedules[i].eventType
                /\ commands[k].call.target = schedules[i].resourceId
                /\ (IF CommandAction(commands[k].call.command) = "start"
                    THEN <<"running">> ELSE <<"stopped">>) \notin SnapshotStates(i)

(* C6: when the three fetches succeed, handler produces exactly one result *)
(* entry per schedule, in input order: entry i carries the resource kind,  *)
(* resourceId and action of schedule i, and the list that is logged when   *)
(* handler returns has one entry for every schedule.                       *)
C6_OneResultPerSchedule ==
    /\ Len(results) <= Len(schedules)
    /\ \A i \in Evaluated :
        /\ results[i].resouceType = schedules[i].resourceType
        /\ results[i].resourceId = schedules[i].resourceId
        /\ results[i].eventType = schedules[i].eventType
    /\ pc = "done" => (Len(results) = Len(schedules) /\ logged = <<results>>)

C6_Witness ==
    /\ pc = "done"
    /\ Len(schedules) >= 2
    /\ schedules[1] = schedules[2]
    /\ Msg(1) \in GateSkips
    /\ Len(logged[1]) = Len(schedules)

(* C7: a rule that passed the window and weekday gates is skipped by the   *)
(* holiday gate iff its holiday setting is 1 and today's date key is in    *)
(* the calendar, and the detail then carries the calendar's name for that  *)
(* date; otherwise the rule goes on to the lookup.                         *)
C7_HolidayGate ==
    \A i \in Evaluated :
        Msg(i) \notin {"CANCELLED_TIME_OUT_OF_RANGE", "CANCELLED_TODAY_NOT_WORKING_DAY"} =>
            /\ (Msg(i) = "CANCELLED_TODAY_IS_HOLIDAY") <=> CancellingHoliday(i)
            /\ Msg(i) = "CANCELLED_TODAY_IS_HOLIDAY" =>
                   results[i].details =
                       <<"CANCELLED_TODAY_IS_HOLIDAY", holidays[currentDateStr]>>
            /\ (Msg(i) # "CANCELLED_TODAY_IS_HOLIDAY" /\ Supported(i)) => SearchesOf(i) # {}

C7_Witness ==
    /\ currentDateStr = "2024-01-01"
    /\ \E i, j \in Evaluated :
        /\ schedules[i].holiday = <<1>>
        /\ results[i].details = <<"CANCELLED_TODAY_IS_HOLIDAY", "Ganjitsu">>
        /\ schedules[j].holiday = <<0>>
        /\ Msg(j) = "INSTANCE_STOP_INSTRUCTED"

(* C8: a rule that passes the three gates with a supported pair and whose  *)
(* target is not located in its own kind's listing is skipped as not found *)
(* and sends no command, for Start and Stop alike; located means an EC2    *)
(* instance of any reservation with that InstanceId, or a Lightsail entry  *)
(* with that name and resourceType "Instance": an entry of the other kind  *)
(* or of another resourceType does not count.                              *)
C8_NotFound ==
    \A i \in Evaluated :
        (PassedGates(i) /\ Supported(i)) =>
            /\ (Msg(i) = "INSTANCE_NOT_FOUND") <=> ~Found(i)
            /\ ~Found(i) => CommandsOf(i) = {}

C8_Witness ==
    \E i \in Evaluated :
        /\ schedules[i].resourceType = "lightsail"
        /\ Msg(i) = "INSTANCE_NOT_FOUND"
        /\ \E e \in LightsailEntries : e.name = schedules[i].resourceId
        /\ \E e \in Ec2Entries : e.InstanceId = schedules[i].resourceId

\* the status of the target of schedule i in the provider's state of the moment
LiveStates(i) ==
    IF schedules[i].resourceType = "ec2"
    THEN IF ec2Live.Reservations = <<>> THEN {}
         ELSE UNION {IF res.Instances = <<>> THEN {}
                     ELSE {res.Instances[1][k].State :
                             k \in {j \in DOMAIN res.Instances[1] :
                                      res.Instances[1][j].InstanceId = schedules[i].resourceId}} :
                        res \in {ec2Live.Reservations[1][r] :
                                   r \in DOMAIN ec2Live.Reservations[1]}}
    ELSE IF lightsailLive.instances = <<>> THEN {}
         ELSE {lightsailLive.instances[1][k].state :
                 k \in {j \in DOMAIN lightsailLive.instances[1] :
                          /\ lightsailLive.instances[1][j].name = schedules[i].resourceId
                          /\ lightsailLive.instances[1][j].resourceType = "Instance"}}

(* C9: the calendar and each listing are fetched at most once, and all     *)
(* three exactly once before the first rule is evaluated and in every      *)
(* invocation that returns; evaluating rules fetches nothing; every rule   *)
(* decides from the status in that one snapshot, whatever the commands     *)
(* sent for earlier rules have meanwhile done to the resource.             *)
C9_OneSnapshot ==
    /\ \A f \in DOMAIN fetches : fetches[f] <= 1
    /\ (pc \in {"map", "done"} \/ results # <<>>) =>
           fetches = [holidays |-> 1, ec2 |-> 1, lightsail |-> 1]
    /\ \A i \in Evaluated :
        (PassedGates(i) /\ Supported(i)) =>
            /\ Msg(i) = "INSTANCE_NOT_FOUND" <=> SnapshotStates(i) = {}
            /\ Msg(i) = "CANCELLED_INSTANCE_ALREADY_RUNNING" <=>
                   (schedules[i].eventType = "start" /\ <<"running">> \in SnapshotStates(i))
            /\ Msg(i) = "CANCELLED_INSTANCE_ALREADY_STOPPED" <=>
                   (schedules[i].eventType = "stop" /\ <<"stopped">> \in SnapshotStates(i))

C9_Witness ==
    \E i, j \in Evaluated :
        /\ i < j
        /\ schedules[i].resourceType = schedules[j].resourceType
        /\ schedules[i].resourceId = schedules[j].resourceId
        /\ Msg(i) = "INSTANCE_START_INSTRUCTED"
        /\ \E k \in CommandsOf(i) : commands[k].status = "fulfilled"
        /\ LiveStates(j) = {<<"pending">>}
        /\ SnapshotStates(j) = {<<"stopped">>}
        /\ Msg(j) = "CANCELLED_INSTANCE_ALREADY_STOPPED"

\* a step in which a command that was sent settles (fulfils or rejects)
Settles ==
    \E k \in DOMAIN commands :
        commands[k].status = "sent" /\ commands'[k].status # "sent"

(* C10: decisions and handler's completion do not depend on the outcome or *)
(* timing of the commands sent: a decision once recorded never changes; a  *)
(* command that settles, rejected or fulfilled, changes no decision, moves *)
(* handler nowhere and causes nothing to be sent again; no rule ever has   *)
(* more than one command; and whatever commands are unsettled, handler's   *)
(* next step (the next rule, or logging and returning) is never blocked.   *)
C10_DispatchIndependent ==
    /\ [](\A i \in Evaluated : Cardinality(CommandsOf(i)) <= 1)
    /\ [](pc = "map" => ENABLED (MapSchedule \/ Return))
    /\ [](pc = "done" => Len(results) = Len(schedules))
    /\ [][/\ \A i \in Evaluated : i \in DOMAIN results' /\ results'[i] = results[i]
          /\ Settles => /\ results' = results
                        /\ pc' = pc
                        /\ logged' = logged
                        /\ returned' = returned
                        /\ Len(commands') = Len(commands)
                        /\ \A k \in DOMAIN commands :
                               /\ commands'[k].call = commands[k].call
                               /\ commands'[k].rule = commands[k].rule]_vars

C10_Witness ==
    /\ pc = "done"
    /\ Len(results) = 2
    /\ \E j, k \in DOMAIN commands :
        /\ commands[j].status = "rejected"
        /\ commands[k].status = "sent"
        /\ Msg(commands[j].rule) \in Fires
        /\ Msg(commands[k].rule) \in Fires

\* the calendar day of the clock reading currentDate was made from: currentDate
\* is that reading cut to the minute and moved on by the offset
DayOfNow == DayIndex(currentDate - JST_TZ_OFFSET * 3600)

\* the calendar day of the clock reading eventDate of schedule i was made
\* from: eventDate is that day's midnight moved on by the schedule's time and
\* the offset
DayOfEventDate(i) ==
    DayIndex(eventDates[i] - (schedules[i].eventHour + JST_TZ_OFFSET) * 3600
                           - schedules[i].eventMinute * 60)

(* C11: within one invocation the window difference, the weekday and the   *)
(* holiday date key of every rule come from one and the same reading of    *)
(* now: the calendar day on which a rule's target instant is placed is the *)
(* day of the reading that the weekday and the date key are taken from,    *)
(* also when the clock advances past midnight during the invocation.       *)
C11_OneReadingOfNow ==
    \A i \in Evaluated :
        /\ DayOfEventDate(i) = DayOfNow
        /\ eventDates[i] = SetHours(currentDate - JST_TZ_OFFSET * 3600,
                                    schedules[i].eventHour + JST_TZ_OFFSET,
                                    schedules[i].eventMinute)

====
